---------------------------- MODULE Spec2Model ----------------------------
(***************************************************************************)
(* bytering: a fixed-capacity single-producer / single-consumer byte ring. *)
(*                                                                         *)
(* The producer holds the Reader handle (it reads from an input INTO the   *)
(* ring: BufferInner::synced_read, which owns the write counter) and the   *)
(* consumer holds the Writer handle (it writes the ring's bytes OUT:       *)
(* BufferInner::synced_write, which owns the read counter).                *)
(*                                                                         *)
(* Each call is modelled step by step: the load of the own counter, the    *)
(* load of the other counter (with the computation of the ranges and the   *)
(* invocation of f), the byte accesses f makes through the views, and the  *)
(* return of f followed by the store of the own counter.                   *)
(***************************************************************************)
EXTENDS Integers, Sequences, FiniteSets, TLC

\* ------------------------------------------------------------------ bounds

\* Capacities tried are 2^0 .. 2^MaxCapBits.
MaxCapBits == 2

\* Length N of the producer's byte stream.
MaxBytes == 4

\* examples/spinthreads.rs scaled down: capacities 2^0 .. 2^StreamCapBits
\* stand for the 4096 of Buffer::new(4096, 4096), StreamBytes for DATA_SIZE.
StreamCapBits == 4
StreamBytes == 12

\* The segment arithmetic alone is tried on capacities 2^0 .. 2^PureCapBits
\* and on every read counter up to PureMaxRead.
PureCapBits == 4
PureMaxRead == 33

\* usize of the target is modelled with HostWordBits bits where no counter can
\* come near usize::MAX, and with SmallWordBits bits where overflow is the
\* point.
HostWordBits == 16
SmallWordBits == 4

\* OverflowSpec: capacities 2^0 .. 2^OverflowCapBits.
OverflowCapBits == 2

\* ApiSpec: capacities 2^0 .. 2^ApiCapBits, at most ApiMaxBytes bytes
\* published.
ApiCapBits == 1
ApiMaxBytes == 3

\* IoSpec: capacities 2^0 .. 2^IoCapBits, at most IoMaxBytes bytes accepted,
\* src and dst of at most IoMaxLen bytes.
IoCapBits == 1
IoMaxBytes == 4
IoMaxLen == 2

\* DropSpec: capacities 2^0 .. 2^DropCapBits, at most DropMaxBytes bytes
\* published.
DropCapBits == 2
DropMaxBytes == 5

\* examples/spinthreads.rs: DummyInput hands over all of len when len <= 10.
InputChunkAll == 10

\* examples/spinthreads.rs: DummyOutput takes all of len when len <= 10.
OutputChunkAll == 10

VARIABLES
    cap,      \* AlignedData::len(): layout.size()
    mask,     \* BufferInner::mask
    read,     \* BufferInner::read  (AtomicUsize)
    write,    \* BufferInner::write (AtomicUsize)
    data,     \* the bytes of AlignedData, offset -> byte
    ppc,      \* producer: position inside Reader::slices -> synced_read
    pw,       \* producer: local w
    pr,       \* producer: local r
    pview,    \* producer: (ranges, len) of empty_ranges, held as bufs
    pk,       \* producer: bytes f has written through bufs so far
    pfret,    \* producer: what f returned
    pres,     \* producer: what the call returned
    pfcalls,  \* producer: invocations of f by the call in progress / last call
    pfail,    \* producer: (view, r, w) of the first failed call since the last success
    cpc,      \* consumer: position inside Writer::slices -> synced_write
    cr,       \* consumer: local r
    cw,       \* consumer: local w
    cview,    \* consumer: (ranges, len) of filled_ranges, held as bufs
    cbuf,     \* consumer: bytes f has read through bufs so far
    cfret,    \* consumer: what f returned
    cres,     \* consumer: what the call returned
    cfcalls,  \* consumer: invocations of f by the call in progress / last call
    cfail,    \* consumer: (view, r, w) of the first failed call since the last success
    sink,     \* every byte the consumer has taken, in order
    done,     \* examples/spinthreads.rs: the shared AtomicBool
    input,    \* examples/spinthreads.rs: DummyInput::data, bytes left to produce
    output,   \* examples/spinthreads.rs: DummyOutput::data, bytes drained
    ce,       \* Writer::is_empty(): its locals r, w, its result, and the
              \* value of write at the instant of its load (now)
    usize_max,\* usize::MAX of the target
    debug_assertions, \* whether the build keeps debug_assert! and overflow checks
    ctor,     \* Buffer::new(size, align): its arguments and how it ended
    arc,      \* Arc<BufferInner>: the strong count
    alloc,    \* whether the storage of AlignedData is allocated
    dropat,   \* per endpoint, the counters when it was dropped
    psum,     \* sum of the n of the producer's calls that returned Ok(n)
    csum,     \* sum of the n of the consumer's calls that returned Ok(n)
    ppos,     \* the last result of Reader::position()
    cpos,     \* the last result of Writer::position()
    src,      \* io::Write::write(src): the caller's slice
    dst,      \* io::Read::read(dst): the caller's buffer
    accepted, \* the bytes of all src that write() reported as written
    read_visible,  \* the values of read a load by the producer may return
    write_visible  \* the values of write a load by the consumer may return

vars == <<cap, mask, read, write, data,
          ppc, pw, pr, pview, pk, pfret, pres, pfcalls, pfail,
          cpc, cr, cw, cview, cbuf, cfret, cres, cfcalls, cfail,
          sink, done, input, output, ce,
          usize_max, debug_assertions, ctor, arc, alloc, dropat, psum, csum, ppos, cpos,
          src, dst, accepted, read_visible, write_visible>>

shared == <<cap, mask, read, write, data>>
pvars  == <<ppc, pw, pr, pview, pk, pfret, pres, pfcalls, pfail>>
cvars  == <<cpc, cr, cw, cview, cbuf, cfret, cres, cfcalls, cfail, sink>>
xvars  == <<done, input, output, ce>>
\* The counters are stored with Release and loaded by the other thread with
\* Acquire or Relaxed (lib.rs:104, 123, 317): such a load returns the latest
\* value or an older one, but never one older than a value the loading
\* thread has already seen. read_visible / write_visible hold the values
\* the other thread may still be given; the largest is the counter itself.
mvars  == <<read_visible, write_visible>>
iovars == <<src, dst, accepted>>
hvars  == <<usize_max, debug_assertions, ctor, arc, alloc, dropat, psum, csum, ppos, cpos>>

\* ------------------------------------------------------- pure definitions

RECURSIVE Pow2(_)
Pow2(k) == IF k = 0 THEN 1 ELSE 2 * Pow2(k - 1)

\* usize::is_power_of_two: exactly one bit set.
RECURSIVE is_power_of_two(_)
is_power_of_two(n) ==
    IF n <= 0 THEN FALSE
    ELSE IF n = 1 THEN TRUE
    ELSE n % 2 = 0 /\ is_power_of_two(n \div 2)

\* a & b on unsigned integers, bit by bit.
RECURSIVE BitAnd(_, _)
BitAnd(a, b) ==
    IF a = 0 \/ b = 0 THEN 0
    ELSE (a % 2) * (b % 2) + 2 * BitAnd(a \div 2, b \div 2)

\* Range<usize>
Range(s, e) == [start |-> s, end |-> e]

range_len(r) == r.end - r.start

\* Option<usize>
Some(v) == [some |-> TRUE, v |-> v]
None    == [some |-> FALSE, v |-> 0]

wrapping_add(a, n) == Some((a + n) % (usize_max + 1))

\* usize::checked_add: None when the sum does not fit usize.
checked_add(a, n) == IF a + n <= usize_max THEN Some(a + n) ELSE None

filled_ranges_wrapped_end(buflen, msk, rd, wr) ==
    LET len   == wr - rd
        start == BitAnd(rd, msk)
        end   == start + len
        endw  == BitAnd(end, msk)
        ranges == IF end = endw
                  THEN <<Range(start, end), Range(0, 0)>>
                  ELSE <<Range(start, buflen), Range(0, end)>>
    IN [ranges |-> ranges, len |-> len]

filled_ranges_from_write(buflen, msk, rd, wr) ==
    LET len   == wr - rd
        start == BitAnd(wr, msk)
        end   == start + len
        endw  == BitAnd(end, msk)
        ranges == IF end = endw
                  THEN <<Range(start, end), Range(0, 0)>>
                  ELSE <<Range(start, buflen), Range(0, endw)>>
    IN [ranges |-> ranges, len |-> len]

filled_ranges_second_first(buflen, msk, rd, wr) ==
    LET len   == wr - rd
        start == BitAnd(rd, msk)
        end   == start + len
        endw  == BitAnd(end, msk)
        ranges == IF end = endw
                  THEN <<Range(start, end), Range(0, 0)>>
                  ELSE <<Range(0, endw), Range(start, buflen)>>
    IN [ranges |-> ranges, len |-> len]

filled_ranges(buflen, msk, rd, wr) ==
    LET len   == wr - rd
        start == BitAnd(rd, msk)
        end   == start + len
        endw  == BitAnd(end, msk)
        ranges == IF end = endw
                  THEN <<Range(start, end), Range(0, 0)>>
                  ELSE <<Range(start, buflen), Range(0, endw)>>
    IN [ranges |-> ranges, len |-> len]

empty_ranges_one_slot_reserved(buflen, msk, rd, wr) ==
    LET len   == buflen - (wr - rd) - 1
        start == BitAnd(wr, msk)
        end   == start + len
        endw  == BitAnd(end, msk)
        ranges == IF end = endw
                  THEN <<Range(start, end), Range(0, 0)>>
                  ELSE <<Range(start, buflen), Range(0, endw)>>
    IN [ranges |-> ranges, len |-> len]

empty_ranges_from_read(buflen, msk, rd, wr) ==
    LET len   == buflen - (wr - rd)
        start == BitAnd(rd, msk)
        end   == start + len
        endw  == BitAnd(end, msk)
        ranges == IF end = endw
                  THEN <<Range(start, end), Range(0, 0)>>
                  ELSE <<Range(start, buflen), Range(0, endw)>>
    IN [ranges |-> ranges, len |-> len]

empty_ranges_whole_buffer(buflen, msk, rd, wr) ==
    LET len   == buflen
        start == BitAnd(wr, msk)
        end   == start + len
        endw  == BitAnd(end, msk)
        ranges == IF end = endw
                  THEN <<Range(start, end), Range(0, 0)>>
                  ELSE <<Range(start, buflen), Range(0, endw)>>
    IN [ranges |-> ranges, len |-> len]

empty_ranges(buflen, msk, rd, wr) ==
    LET len   == buflen - (wr - rd)
        start == BitAnd(wr, msk)
        end   == start + len
        endw  == BitAnd(end, msk)
        ranges == IF end = endw
                  THEN <<Range(start, end), Range(0, 0)>>
                  ELSE <<Range(start, buflen), Range(0, endw)>>
    IN [ranges |-> ranges, len |-> len]

\* No ranges computed yet.
NoView == [ranges |-> <<>>, len |-> 0]

\* AlignedData::slices / slices_mut: the two slices of the storage, as the
\* storage offset behind index i (from 1) of bufs[0] followed by bufs[1].
SliceOffset(v, i) ==
    LET a == v.ranges[1]
        b == v.ranges[2]
    IN IF i <= range_len(a) THEN a.start + (i - 1)
       ELSE b.start + (i - 1 - range_len(a))

\* Total length of the two slices.
SlicesLen(v) == range_len(v.ranges[1]) + range_len(v.ranges[2])

\* The set of storage offsets the two slices cover.
SliceOffsets(v) ==
    IF v = NoView THEN {}
    ELSE {o \in 0..(cap - 1) :
            \/ (v.ranges[1].start <= o /\ o < v.ranges[1].end)
            \/ (v.ranges[2].start <= o /\ o < v.ranges[2].end)}

\* The storage offsets of one Range, as slices()/slices_mut() index them.
RangeOffsets(r) == r.start..(r.end - 1)

\* The offsets of a view in the order of its two slices.
ViewSeq(v) == [i \in 1..SlicesLen(v) |-> SliceOffset(v, i)]

\* The producer's deterministic byte stream: byte number i (from 0).
Stream(i) == i + 1

StreamPrefix(n) == [i \in 1..n |-> Stream(i - 1)]

\* Result<usize, E>
Errors == {"E1", "E2"}
NoRet  == [kind |-> "none", n |-> 0, e |-> "-"]
Ok(n)  == [kind |-> "ok", n |-> n, e |-> "-"]
Err(e) == [kind |-> "err", n |-> 0, e |-> e]

\* No failed call since the last successful one.
NoFail == [view |-> NoView, r |-> 0, w |-> 0]

\* Neither endpoint has been dropped.
NoDrop  == [dropped |-> FALSE, r |-> 0, w |-> 0]
NoDrops == [reader |-> NoDrop, writer |-> NoDrop]

\* Writer::is_empty locals before the call.
NoCe == [r |-> 0, w |-> 0, empty |-> FALSE, now |-> 0]

\* --------------------------------------------------------- construction

\* Buffer::new(size, align) followed by into_parts().
BufferNew(size) ==
    /\ is_power_of_two(size)
    /\ cap = size
    /\ mask = size - 1
    /\ read = 0
    /\ write = 0
    /\ data = [o \in 0..(size - 1) |-> 0]
    /\ ctor = [state |-> "built", why |-> "none", size |-> size, align |-> size]
    /\ arc = 2
    /\ alloc = TRUE

EndpointsIdle ==
    /\ ppc = "idle" /\ pw = 0 /\ pr = 0 /\ pview = NoView /\ pk = 0
    /\ pfret = NoRet /\ pres = NoRet /\ pfcalls = 0 /\ pfail = NoFail
    /\ cpc = "idle" /\ cr = 0 /\ cw = 0 /\ cview = NoView /\ cbuf = <<>>
    /\ cfret = NoRet /\ cres = NoRet /\ cfcalls = 0 /\ cfail = NoFail
    /\ sink = <<>>
    /\ done = FALSE /\ output = 0 /\ ce = NoCe
    /\ dropat = NoDrops
    /\ psum = 0 /\ csum = 0 /\ ppos = 0 /\ cpos = 0
    /\ src = <<>> /\ dst = <<>> /\ accepted = <<>>
    /\ read_visible = {read} /\ write_visible = {write}

\* A target whose usize no counter of the run comes near.
HostTarget ==
    /\ usize_max = Pow2(HostWordBits) - 1
    /\ debug_assertions = TRUE

Init ==
    /\ \E k \in 0..MaxCapBits : BufferNew(Pow2(k))
    /\ EndpointsIdle
    /\ HostTarget
    /\ input = 0

\* ------------------------------------------- producer: Reader::slices

\* lib.rs:103  let w = self.write.load(Relaxed);
SR_LoadW ==
    /\ ppc = "idle"
    /\ pw' = write
    /\ ppc' = "loaded_w"
    /\ pview' = NoView /\ pk' = 0
    /\ pfret' = NoRet /\ pres' = NoRet /\ pfcalls' = 0
    /\ pfail' = IF pres.kind = "ok" THEN NoFail ELSE pfail
    /\ UNCHANGED <<hvars, mvars, iovars, pr, shared, cvars, xvars>>

SR_LoadRWaits ==
    /\ ppc = "loaded_w"
    /\ \E r \in read_visible :
         /\ cap - (pw - r) > 0
         /\ pr' = r
         /\ read_visible' = {x \in read_visible : x >= r}
         /\ pview' = empty_ranges(cap, mask, r, pw)
    /\ pfcalls' = pfcalls + 1
    /\ ppc' = "in_f"
    /\ UNCHANGED <<hvars, write_visible, iovars, pw, pk, pfret, pres, pfail, shared, cvars, xvars>>

SR_LoadRFromWrite ==
    /\ ppc = "loaded_w"
    /\ pr' = write
    /\ pview' = empty_ranges(cap, mask, write, pw)
    /\ pfcalls' = pfcalls + 1
    /\ ppc' = "in_f"
    /\ UNCHANGED <<hvars, mvars, iovars, pw, pk, pfret, pres, pfail, shared, cvars, xvars>>

\* lib.rs:104-110  let r = self.read.load(Acquire); empty_ranges;
\* slices_mut; f is invoked with bufs and len.
SR_LoadR ==
    /\ ppc = "loaded_w"
    /\ \E r \in read_visible :
         /\ pr' = r
         /\ read_visible' = {x \in read_visible : x >= r}
         /\ pview' = empty_ranges(cap, mask, r, pw)
    /\ pfcalls' = pfcalls + 1
    /\ ppc' = "in_f"
    /\ UNCHANGED <<hvars, write_visible, iovars, pw, pk, pfret, pres, pfail, shared, cvars, xvars>>

\* Inside f: the caller writes the next byte of its stream through bufs.
SR_FWrite ==
    /\ ppc = "in_f"
    /\ pk < pview.len
    /\ pw + pk < MaxBytes
    /\ data' = [data EXCEPT ![SliceOffset(pview, pk + 1)] = Stream(pw + pk)]
    /\ pk' = pk + 1
    /\ UNCHANGED <<hvars, mvars, iovars, cap, mask, read, write,
                   ppc, pw, pr, pview, pfret, pres, pfcalls, pfail,
                   cvars, xvars>>

SR_FErrPublishes ==
    /\ ppc = "in_f"
    /\ \E e \in Errors :
         /\ pfret' = Err(e)
         /\ pres' = Err(e)
    /\ write' = checked_add(pw, pk).v
    /\ write_visible' = write_visible \cup {write'}
    /\ pfail' = IF pfail = NoFail THEN [view |-> pview, r |-> pr, w |-> pw]
                ELSE pfail
    /\ ppc' = "idle"
    /\ UNCHANGED <<hvars, read_visible, iovars, cap, mask, read, data, pw, pr, pview, pk, pfcalls,
                   cvars, xvars>>

\* lib.rs:110  f(bufs, len)? with f returning Err(e): the call returns that
\* error at once.
SR_FErr ==
    /\ ppc = "in_f"
    /\ \E e \in Errors :
         /\ pfret' = Err(e)
         /\ pres' = Err(e)
    /\ pfail' = IF pfail = NoFail THEN [view |-> pview, r |-> pr, w |-> pw]
                ELSE pfail
    /\ ppc' = "idle"
    /\ UNCHANGED <<hvars, mvars, iovars, pw, pr, pview, pk, pfcalls, shared, cvars, xvars>>

\* lib.rs:110-111  f returned Ok(n), n <= len, having written (at least) the
\* first n offsets of bufs.
SR_FOk ==
    /\ ppc = "in_f"
    /\ \E n \in 0..pk : pfret' = Ok(n)
    /\ ppc' = "store"
    /\ UNCHANGED <<hvars, mvars, iovars, pw, pr, pview, pk, pres, pfcalls, pfail,
                   shared, cvars, xvars>>

SR_StoreMasked ==
    /\ ppc = "store"
    /\ write' = checked_add(BitAnd(pw, mask), pfret.n).v
    /\ write_visible' = write_visible \cup {write'}
    /\ pres' = Ok(pfret.n)
    /\ psum' = psum + pfret.n
    /\ ppc' = "idle"
    /\ UNCHANGED <<cap, mask, read, data,
                   pw, pr, pview, pk, pfret, pfcalls, pfail, cvars, xvars,
                   read_visible, iovars, usize_max, debug_assertions, ctor, arc, alloc, dropat,
                   csum, ppos, cpos>>

SR_StoreIntoRead ==
    /\ ppc = "store"
    /\ read' = checked_add(pw, pfret.n).v
    /\ read_visible' = read_visible \cup {read'}
    /\ pres' = Ok(pfret.n)
    /\ psum' = psum + pfret.n
    /\ ppc' = "idle"
    /\ UNCHANGED <<cap, mask, write, data,
                   pw, pr, pview, pk, pfret, pfcalls, pfail, cvars, xvars,
                   write_visible, iovars, usize_max, debug_assertions, ctor, arc, alloc, dropat,
                   csum, ppos, cpos>>

\* lib.rs:113-114  self.write.store(w.checked_add(n).unwrap(), Release); Ok(n)
\* (unwrap panics on None, before the store).
SR_Store ==
    /\ ppc = "store"
    /\ LET sum == checked_add(pw, pfret.n)
       IN IF sum.some
          THEN /\ write' = sum.v
               /\ write_visible' = write_visible \cup {sum.v}
               /\ pres' = Ok(pfret.n)
               /\ psum' = psum + pfret.n
               /\ ppc' = "idle"
          ELSE /\ ppc' = "panic"
               /\ UNCHANGED <<write, write_visible, pres, psum>>
    /\ UNCHANGED <<cap, mask, read, data,
                   pw, pr, pview, pk, pfret, pfcalls, pfail, cvars, xvars,
                   read_visible, iovars, usize_max, debug_assertions, ctor, arc, alloc, dropat, csum, ppos, cpos>>

Producer ==
    SR_LoadW \/ SR_LoadR \/ SR_FWrite \/ SR_FErr \/ SR_FOk \/ SR_Store

\* ------------------------------------------- consumer: Writer::slices

\* lib.rs:122  let r = self.read.load(Relaxed);
SW_LoadR ==
    /\ cpc = "idle"
    /\ cr' = read
    /\ cpc' = "loaded_r"
    /\ cview' = NoView /\ cbuf' = <<>>
    /\ cfret' = NoRet /\ cres' = NoRet /\ cfcalls' = 0
    /\ cfail' = IF cres.kind = "ok" THEN NoFail ELSE cfail
    /\ UNCHANGED <<hvars, mvars, iovars, cw, sink, shared, pvars, xvars>>

\* lib.rs:123-129  let w = self.write.load(Acquire); filled_ranges; slices;
\* f is invoked with bufs and len.
SW_LoadW ==
    /\ cpc = "loaded_r"
    /\ \E w \in write_visible :
         /\ cw' = w
         /\ write_visible' = {x \in write_visible : x >= w}
         /\ cview' = filled_ranges(cap, mask, cr, w)
    /\ cfcalls' = cfcalls + 1
    /\ cpc' = "in_f"
    /\ UNCHANGED <<hvars, read_visible, iovars, cr, cbuf, cfret, cres, cfail, sink, shared, pvars, xvars>>

\* Inside f: the caller reads the next byte through bufs.
SW_FRead ==
    /\ cpc = "in_f"
    /\ Len(cbuf) < cview.len
    /\ cbuf' = Append(cbuf, data[SliceOffset(cview, Len(cbuf) + 1)])
    /\ UNCHANGED <<hvars, mvars, iovars, cpc, cr, cw, cview, cfret, cres, cfcalls, cfail, sink,
                   shared, pvars, xvars>>

SW_FErrPublishes ==
    /\ cpc = "in_f"
    /\ \E e \in Errors :
         /\ cfret' = Err(e)
         /\ cres' = Err(e)
    /\ read' = checked_add(cr, Len(cbuf)).v
    /\ read_visible' = read_visible \cup {read'}
    /\ cfail' = IF cfail = NoFail THEN [view |-> cview, r |-> cr, w |-> cw]
                ELSE cfail
    /\ cpc' = "idle"
    /\ UNCHANGED <<hvars, write_visible, iovars, cap, mask, write, data, cr, cw, cview, cbuf, cfcalls, sink,
                   pvars, xvars>>

\* lib.rs:129  f(bufs, len)? with f returning Err(e): the call returns that
\* error at once.
SW_FErr ==
    /\ cpc = "in_f"
    /\ \E e \in Errors :
         /\ cfret' = Err(e)
         /\ cres' = Err(e)
    /\ cfail' = IF cfail = NoFail THEN [view |-> cview, r |-> cr, w |-> cw]
                ELSE cfail
    /\ cpc' = "idle"
    /\ UNCHANGED <<hvars, mvars, iovars, cr, cw, cview, cbuf, cfcalls, sink, shared, pvars, xvars>>

\* lib.rs:129-130  f returned Ok(n), n <= len, having taken the first n bytes
\* of bufs.
SW_FOk ==
    /\ cpc = "in_f"
    /\ \E n \in 0..Len(cbuf) :
         /\ cfret' = Ok(n)
         /\ sink' = sink \o SubSeq(cbuf, 1, n)
    /\ cpc' = "store"
    /\ UNCHANGED <<hvars, mvars, iovars, cr, cw, cview, cbuf, cres, cfcalls, cfail,
                   shared, pvars, xvars>>

SW_StoreWholeView ==
    /\ cpc = "store"
    /\ read' = checked_add(cr, cview.len).v
    /\ read_visible' = read_visible \cup {read'}
    /\ cres' = Ok(cfret.n)
    /\ csum' = csum + cfret.n
    /\ cpc' = "idle"
    /\ UNCHANGED <<cap, mask, write, data,
                   cr, cw, cview, cbuf, cfret, cfcalls, cfail, sink,
                   pvars, xvars,
                   write_visible, iovars, usize_max, debug_assertions, ctor, arc, alloc, dropat, psum, ppos, cpos>>

\* lib.rs:132-133  self.read.store(r.checked_add(n).unwrap(), Release); Ok(n)
\* (unwrap panics on None, before the store).
SW_Store ==
    /\ cpc = "store"
    /\ LET sum == checked_add(cr, cfret.n)
       IN IF sum.some
          THEN /\ read' = sum.v
               /\ read_visible' = read_visible \cup {sum.v}
               /\ cres' = Ok(cfret.n)
               /\ csum' = csum + cfret.n
               /\ cpc' = "idle"
          ELSE /\ cpc' = "panic"
               /\ UNCHANGED <<read, read_visible, cres, csum>>
    /\ UNCHANGED <<cap, mask, write, data,
                   cr, cw, cview, cbuf, cfret, cfcalls, cfail, sink,
                   pvars, xvars,
                   write_visible, iovars, usize_max, debug_assertions, ctor, arc, alloc, dropat, psum, ppos, cpos>>

Consumer ==
    SW_LoadR \/ SW_LoadW \/ SW_FRead \/ SW_FErr \/ SW_FOk \/ SW_Store

Next == Producer \/ Consumer

Spec == Init /\ [][Next]_vars


\* ------------------------------------------------- the driven pair of loops

\* The callers of the liveness contract (they are its hypothesis, not code
\* of the library): both endpoints call again and again; the producer has
\* MaxBytes bytes to write and its f writes at least one of them whenever it
\* is offered len > 0; the consumer's f takes at least one byte whenever it
\* is offered len > 0.
LP_FOk ==
    /\ SR_FOk
    /\ (pview.len > 0 /\ pw < MaxBytes) => pfret'.n >= 1

LC_FOk ==
    /\ SW_FOk
    /\ (cview.len > 0) => cfret'.n >= 1

LiveProducer == SR_LoadW \/ SR_LoadR \/ SR_FWrite \/ LP_FOk \/ SR_Store

LiveConsumer == SW_LoadR \/ SW_LoadW \/ SW_FRead \/ LC_FOk \/ SW_Store

LiveNext == LiveProducer \/ LiveConsumer

\* A load that returns the latest value stored by the other thread.
FreshLoadR == SR_LoadR /\ pr' = read

FreshLoadW == SW_LoadW /\ cw' = write

\* Both threads keep running (weak fairness of each), and a store becomes
\* visible to the other thread in finite time: a thread that loads again
\* and again is eventually given the latest value (strong fairness of the
\* fresh loads).
LiveSpec ==
    /\ Init
    /\ [][LiveNext]_vars
    /\ WF_vars(LiveProducer)
    /\ WF_vars(LiveConsumer)
    /\ SF_vars(FreshLoadR)
    /\ SF_vars(FreshLoadW)


\* ------------------------------------- examples/spinthreads.rs: main()

Min(a, b) == IF a <= b THEN a ELSE b

\* Drop of an Arc<BufferInner>: the count goes down, and the last drop runs
\* Drop for AlignedData (lib.rs:408-417), which deallocates the storage.
ArcDrop ==
    /\ arc' = arc - 1
    /\ alloc' = (arc - 1 > 0)

StreamInit ==
    /\ \E k \in 0..StreamCapBits : BufferNew(Pow2(k))
    /\ EndpointsIdle
    /\ HostTarget
    /\ input = StreamBytes

\* spinthreads.rs:28-29  top of the reader thread's loop: reader.io_slices(..)
XP_Call ==
    /\ pres = NoRet
    /\ SR_LoadW

XP_FDoneOnAnyZero ==
    /\ ppc = "in_f"
    /\ LET len == Min(SlicesLen(pview), input)
       IN \E n \in (IF len <= InputChunkAll THEN {len} ELSE 1..(len - 1)) :
            /\ input' = input - n
            /\ done' = (IF n = 0 THEN TRUE ELSE done)
            /\ pfret' = Ok(n)
    /\ ppc' = "store"
    /\ UNCHANGED <<hvars, mvars, iovars, pw, pr, pview, pk, pres, pfcalls, pfail,
                   shared, cvars, output, ce>>

\* spinthreads.rs:29-34 with DummyInput::read_vectored (76-85): n bytes are
\* "read" (no byte is written), all of len = min(sum of the lengths, data)
\* when len <= 10 and else any n in 1..len-1 (gen_range(1..len)); when n == 0
\* on a non-empty offer, done is set.
XP_F ==
    /\ ppc = "in_f"
    /\ LET len == Min(SlicesLen(pview), input)
       IN \E n \in (IF len <= InputChunkAll THEN {len} ELSE 1..(len - 1)) :
            /\ input' = input - n
            /\ done' = (IF n = 0 /\ pview.len # 0 THEN TRUE ELSE done)
            /\ pfret' = Ok(n)
    /\ ppc' = "store"
    /\ UNCHANGED <<hvars, mvars, iovars, pw, pr, pview, pk, pres, pfcalls, pfail,
                   shared, cvars, output, ce>>

\* spinthreads.rs:37-40  if done.load(Relaxed) { assert_eq!(reader.position(),
\* DATA_SIZE); return } else loop.  The thread ends on return and on the failed
\* assertion alike, and the closure's reader is dropped with it.
XP_CheckDone ==
    /\ ppc = "idle" /\ pres # NoRet
    /\ IF done
       THEN /\ ppc' = (IF write = StreamBytes THEN "exit" ELSE "panic")
            /\ pres' = pres
            /\ ArcDrop
            /\ dropat' = [dropat EXCEPT
                            !.reader = [dropped |-> TRUE, r |-> read, w |-> write]]
       ELSE /\ ppc' = "idle"
            /\ pres' = NoRet
            /\ UNCHANGED <<arc, alloc, dropat>>
    /\ UNCHANGED <<usize_max, debug_assertions, ctor, psum, csum, ppos, cpos,
                   mvars, iovars, pw, pr, pview, pk, pfret, pfcalls, pfail,
                   shared, cvars, xvars>>

\* spinthreads.rs:45-46  top of the writer thread's loop: writer.io_slices(..)
XC_Call ==
    /\ cres = NoRet
    /\ SW_LoadR

\* spinthreads.rs:46-49 with DummyOutput::write_vectored (98-107): n bytes
\* are drained, all of len when len <= 10 and else any n in 0..len-1
\* (gen_range(0..len)).
XC_F ==
    /\ cpc = "in_f"
    /\ LET len == SlicesLen(cview)
       IN \E n \in (IF len <= OutputChunkAll THEN {len} ELSE 0..(len - 1)) :
            /\ output' = output + n
            /\ cfret' = Ok(n)
    /\ cpc' = "store"
    /\ UNCHANGED <<hvars, mvars, iovars, cr, cw, cview, cbuf, cres, cfcalls, cfail, sink,
                   shared, pvars, done, input, ce>>

\* spinthreads.rs:51 -> lib.rs:316  is_empty(): let r = read.load(Relaxed);
XC_IsEmptyLoadR ==
    /\ cpc = "idle" /\ cres # NoRet
    /\ ce' = [r |-> read, w |-> 0, empty |-> FALSE, now |-> 0]
    /\ cpc' = "is_empty_r"
    /\ UNCHANGED <<hvars, mvars, iovars, cr, cw, cview, cbuf, cfret, cres, cfcalls, cfail, sink,
                   shared, pvars, done, input, output>>

\* lib.rs:317-318  let w = write.load(Relaxed); w == r.  When false the &&
\* of spinthreads.rs:51 is false and the loop goes round.
XC_IsEmptyLoadW ==
    /\ cpc = "is_empty_r"
    /\ \E w \in write_visible :
         /\ ce' = [r |-> ce.r, w |-> w, empty |-> (w = ce.r), now |-> write]
         /\ write_visible' = {x \in write_visible : x >= w}
         /\ IF w = ce.r
            THEN cpc' = "is_empty_w" /\ cres' = cres
            ELSE cpc' = "idle" /\ cres' = NoRet
    /\ UNCHANGED <<hvars, read_visible, iovars, cr, cw, cview, cbuf, cfret, cfcalls, cfail, sink,
                   shared, pvars, done, input, output>>

\* spinthreads.rs:51-54  && done_check.load(Relaxed): when true,
\* assert_eq!(writer.position(), DATA_SIZE) and return; else loop.  The
\* thread ends on return and on the failed assertion alike, and the closure's
\* writer is dropped with it.
XC_LoadDone ==
    /\ cpc = "is_empty_w"
    /\ \E seen \in {FALSE, done} :
       IF seen
       THEN /\ cpc' = (IF read = StreamBytes THEN "exit" ELSE "panic")
            /\ cres' = cres
            /\ ArcDrop
            /\ dropat' = [dropat EXCEPT
                            !.writer = [dropped |-> TRUE, r |-> read, w |-> write]]
       ELSE /\ cpc' = "idle"
            /\ cres' = NoRet
            /\ UNCHANGED <<arc, alloc, dropat>>
    /\ UNCHANGED <<usize_max, debug_assertions, ctor, psum, csum, ppos, cpos,
                   mvars, iovars, cr, cw, cview, cbuf, cfret, cfcalls, cfail, sink,
                   shared, pvars, xvars>>

ReaderThread == XP_Call \/ SR_LoadR \/ XP_F \/ SR_Store \/ XP_CheckDone

WriterThread ==
    \/ XC_Call \/ SW_LoadW \/ XC_F \/ SW_Store
    \/ XC_IsEmptyLoadR \/ XC_IsEmptyLoadW \/ XC_LoadDone

StreamNext == ReaderThread \/ WriterThread

StreamSpec == StreamInit /\ [][StreamNext]_vars


\* ------------------------------------------- the segment arithmetic alone

\* Any capacity that is a power of two and any counters with
\* read <= write <= read + capacity.
PureInit ==
    /\ \E k \in 0..PureCapBits :
         /\ cap = Pow2(k)
         /\ mask = Pow2(k) - 1
         /\ data = [o \in 0..(Pow2(k) - 1) |-> 0]
         /\ ctor = [state |-> "built", why |-> "none",
                    size |-> Pow2(k), align |-> Pow2(k)]
         /\ arc = 2
         /\ alloc = TRUE
         /\ \E rd \in 0..PureMaxRead : \E wr \in rd..(rd + Pow2(k)) :
              /\ read = rd
              /\ write = wr
    /\ EndpointsIdle
    /\ HostTarget
    /\ input = 0

\* filled_ranges(buflen, mask, read, write) is applied.
Pure_Filled ==
    /\ cview = NoView
    /\ cview' = filled_ranges(cap, mask, read, write)
    /\ UNCHANGED <<hvars, mvars, iovars, cpc, cr, cw, cbuf, cfret, cres, cfcalls, cfail, sink,
                   shared, pvars, xvars>>

\* empty_ranges(buflen, mask, read, write) is applied.
Pure_Empty ==
    /\ pview = NoView
    /\ pview' = empty_ranges(cap, mask, read, write)
    /\ UNCHANGED <<hvars, mvars, iovars, ppc, pw, pr, pk, pfret, pres, pfcalls, pfail,
                   shared, cvars, xvars>>

PureNext == Pure_Filled \/ Pure_Empty

PureSpec == PureInit /\ [][PureNext]_vars

\* ---------------------------------------------------------------- overflow
\* The library on a target with SmallWordBits-bit usize, so that the
\* counters reach usize::MAX.  f only chooses how many bytes it moved.

OverflowInit ==
    /\ \E k \in 0..OverflowCapBits : BufferNew(Pow2(k))
    /\ EndpointsIdle
    /\ usize_max = Pow2(SmallWordBits) - 1
    /\ debug_assertions \in BOOLEAN
    /\ input = 0

\* lib.rs:172 (146)  debug_assert!(write <= read + buflen): in a build with
\* debug assertions the addition itself panics when it overflows.
DebugAddOverflows(r) == debug_assertions /\ r + cap > usize_max

\* lib.rs:104-106 in such a build: the call panics inside empty_ranges.
SR_DebugPanic ==
    /\ ppc = "loaded_w"
    /\ \E r \in read_visible :
         /\ DebugAddOverflows(r)
         /\ pr' = r
         /\ read_visible' = {x \in read_visible : x >= r}
    /\ ppc' = "panic"
    /\ UNCHANGED <<hvars, write_visible, iovars, pw, pview, pk, pfret, pres, pfcalls, pfail,
                   shared, cvars, xvars>>

OV_SR_LoadR == SR_LoadR /\ ~DebugAddOverflows(pr')

\* lib.rs:110  f returns Ok(n) with n <= len; the bytes themselves are not
\* modelled here.
SR_FCount ==
    /\ ppc = "in_f"
    /\ \E n \in 0..pview.len : pfret' = Ok(n)
    /\ ppc' = "store"
    /\ UNCHANGED <<hvars, mvars, iovars, pw, pr, pview, pk, pres, pfcalls, pfail,
                   shared, cvars, xvars>>

\* lib.rs:122-125 in a build with debug assertions: the call panics inside
\* filled_ranges.
SW_DebugPanic ==
    /\ cpc = "loaded_r"
    /\ DebugAddOverflows(cr)
    /\ \E w \in write_visible :
         /\ cw' = w
         /\ write_visible' = {x \in write_visible : x >= w}
    /\ cpc' = "panic"
    /\ UNCHANGED <<hvars, read_visible, iovars, cr, cview, cbuf, cfret, cres, cfcalls, cfail, sink,
                   shared, pvars, xvars>>

OV_SW_LoadW == ~DebugAddOverflows(cr) /\ SW_LoadW

\* lib.rs:129  f returns Ok(n) with n <= len.
SW_FCount ==
    /\ cpc = "in_f"
    /\ \E n \in 0..cview.len : cfret' = Ok(n)
    /\ cpc' = "store"
    /\ UNCHANGED <<hvars, mvars, iovars, cr, cw, cview, cbuf, cres, cfcalls, cfail, sink,
                   shared, pvars, xvars>>

OverflowProducer ==
    SR_LoadW \/ OV_SR_LoadR \/ SR_DebugPanic \/ SR_FCount \/ SR_Store

OverflowConsumer ==
    SW_LoadR \/ OV_SW_LoadW \/ SW_DebugPanic \/ SW_FCount \/ SW_Store

OverflowNext == OverflowProducer \/ OverflowConsumer

OverflowSpec == OverflowInit /\ [][OverflowNext]_vars

\* ------------------------------------------------------------ construction
\* Buffer::new(size, align) for every pair of arguments of a target with
\* SmallWordBits-bit usize, then into_parts() and the first call of each
\* endpoint up to the invocation of f.

isize_max == usize_max \div 2

from_size_align_any_align(size, align) ==
    /\ align # 0
    /\ size <= isize_max - (align - 1)

\* core::alloc::Layout::from_size_align(size, align).is_ok(): align is a
\* power of two and size, rounded up to align, does not exceed isize::MAX.
from_size_align(size, align) ==
    /\ is_power_of_two(align)
    /\ size <= isize_max - (align - 1)

CtorInit ==
    /\ usize_max = Pow2(SmallWordBits) - 1
    /\ debug_assertions = TRUE
    /\ \E size \in 0..usize_max : \E align \in 0..usize_max :
          ctor = [state |-> "start", why |-> "none",
                  size |-> size, align |-> align]
    /\ cap = 0 /\ mask = 0 /\ read = 0 /\ write = 0 /\ data = <<>>
    /\ arc = 0 /\ alloc = FALSE
    /\ EndpointsIdle
    /\ input = 0

\* A failed assert! or unwrap() inside Buffer::new: no Buffer exists.
NewPanics(why) ==
    /\ ctor' = [ctor EXCEPT !.state = "panic", !.why = why]
    /\ UNCHANGED <<shared, arc, alloc>>

\* lib.rs:46-65 with AlignedData::new (346-359): assert!(size.is_power_of_two()),
\* Layout::from_size_align(..).unwrap(), NonNull::new(alloc_zeroed(..)).unwrap()
\* where the allocator may return null, then the fields of BufferInner.
Buffer_new ==
    /\ ctor.state = "start"
    /\ IF ~is_power_of_two(ctor.size) THEN NewPanics("size")
       ELSE IF ~from_size_align(ctor.size, ctor.align) THEN NewPanics("layout")
       ELSE \/ NewPanics("alloc")
            \/ /\ cap' = ctor.size
               /\ mask' = ctor.size - 1
               /\ read' = 0
               /\ write' = 0
               /\ data' = [o \in 0..(ctor.size - 1) |-> 0]
               /\ alloc' = TRUE
               /\ arc' = 1
               /\ ctor' = [ctor EXCEPT !.state = "new"]
    /\ UNCHANGED <<pvars, cvars, xvars, mvars, iovars, usize_max, debug_assertions,
                   dropat, psum, csum, ppos, cpos>>

\* lib.rs:71-81  into_parts: the Arc is cloned, one for each endpoint.
into_parts ==
    /\ ctor.state = "new"
    /\ arc' = arc + 1
    /\ ctor' = [ctor EXCEPT !.state = "built"]
    /\ UNCHANGED <<shared, pvars, cvars, xvars, mvars, iovars, usize_max, debug_assertions,
                   alloc, dropat, psum, csum, ppos, cpos>>

\* The first call of each endpoint, up to the invocation of f.
FirstProducerCall == ctor.state = "built" /\ (SR_LoadW \/ SR_LoadR)

FirstConsumerCall == ctor.state = "built" /\ (SW_LoadR \/ SW_LoadW)

CtorNext ==
    Buffer_new \/ into_parts \/ FirstProducerCall \/ FirstConsumerCall

CtorSpec == CtorInit /\ [][CtorNext]_vars

\* --------------------------------------------------------------------- api
\* The public API of the two endpoints while both are alive: the with-calls
\* (f only chooses how many bytes it moved) and the observers position()
\* and is_empty().

ApiInit ==
    /\ \E k \in 0..ApiCapBits : BufferNew(Pow2(k))
    /\ EndpointsIdle
    /\ HostTarget
    /\ input = 0

\* f of the producer, publishing at most ApiMaxBytes bytes in the run.
AP_SR_F == SR_FCount /\ pw + pfret'.n <= ApiMaxBytes

\* lib.rs:238-240  Reader::position: self.buffer.write.load(Relaxed)
Reader_position ==
    /\ ppc = "idle"
    /\ ppos' = write
    /\ UNCHANGED <<shared, pvars, cvars, xvars, mvars, iovars, usize_max, debug_assertions,
                   ctor, arc, alloc, dropat, psum, csum, cpos>>

\* lib.rs:308-310  Writer::position: self.buffer.read.load(Relaxed)
Writer_position ==
    /\ cpc = "idle"
    /\ cpos' = read
    /\ UNCHANGED <<shared, pvars, cvars, xvars, mvars, iovars, usize_max, debug_assertions,
                   ctor, arc, alloc, dropat, psum, csum, ppos>>

\* lib.rs:316  Writer::is_empty: let r = self.buffer.read.load(Relaxed);
is_empty_LoadR ==
    /\ cpc = "idle"
    /\ ce' = [r |-> read, w |-> 0, empty |-> FALSE, now |-> 0]
    /\ cpc' = "is_empty_r"
    /\ UNCHANGED <<hvars, mvars, iovars, cr, cw, cview, cbuf, cfret, cres, cfcalls, cfail, sink,
                   shared, pvars, done, input, output>>

is_empty_LoadWNotBehind ==
    /\ cpc = "is_empty_r"
    /\ \E w \in write_visible :
         /\ ce' = [r |-> ce.r, w |-> w, empty |-> (w >= ce.r), now |-> write]
         /\ write_visible' = {x \in write_visible : x >= w}
    /\ cpc' = "idle"
    /\ UNCHANGED <<hvars, read_visible, iovars, cr, cw, cview, cbuf, cfret, cres, cfcalls, cfail, sink,
                   shared, pvars, done, input, output>>

\* lib.rs:317-318  let w = self.buffer.write.load(Relaxed); w == r
is_empty_LoadW ==
    /\ cpc = "is_empty_r"
    /\ \E w \in write_visible :
         /\ ce' = [r |-> ce.r, w |-> w, empty |-> (w = ce.r), now |-> write]
         /\ write_visible' = {x \in write_visible : x >= w}
    /\ cpc' = "idle"
    /\ UNCHANGED <<hvars, read_visible, iovars, cr, cw, cview, cbuf, cfret, cres, cfcalls, cfail, sink,
                   shared, pvars, done, input, output>>

ApiProducer ==
    \/ SR_LoadW \/ SR_LoadR \/ AP_SR_F \/ SR_Store
    \/ Reader_position

ApiConsumer ==
    \/ SW_LoadR \/ SW_LoadW \/ SW_FCount \/ SW_Store
    \/ Writer_position
    \/ is_empty_LoadR \/ is_empty_LoadW

ApiNext == ApiProducer \/ ApiConsumer

ApiSpec == ApiInit /\ [][ApiNext]_vars

\* -------------------------------------------------------------------- drop
\* The with-calls of the two endpoints and the drop of each endpoint.

DropInit ==
    /\ \E k \in 0..DropCapBits : BufferNew(Pow2(k))
    /\ EndpointsIdle
    /\ HostTarget
    /\ input = 0

\* f of the producer, publishing at most DropMaxBytes bytes in the run.
DP_SR_F == SR_FCount /\ pw + pfret'.n <= DropMaxBytes

\* The producer's endpoint (struct Reader) goes out of scope between calls.
DropReader ==
    /\ ppc = "idle"
    /\ ppc' = "dropped"
    /\ ArcDrop
    /\ dropat' = [dropat EXCEPT
                    !.reader = [dropped |-> TRUE, r |-> read, w |-> write]]
    /\ UNCHANGED <<shared, pw, pr, pview, pk, pfret, pres, pfcalls, pfail,
                   cvars, xvars, mvars, iovars, usize_max, debug_assertions, ctor,
                   psum, csum, ppos, cpos>>

DropWriterDeallocs ==
    /\ cpc = "idle"
    /\ cpc' = "dropped"
    /\ arc' = arc - 1
    /\ alloc' = FALSE
    /\ dropat' = [dropat EXCEPT
                    !.writer = [dropped |-> TRUE, r |-> read, w |-> write]]
    /\ UNCHANGED <<shared, cr, cw, cview, cbuf, cfret, cres, cfcalls, cfail,
                   sink, pvars, xvars, mvars, iovars, usize_max, debug_assertions, ctor,
                   psum, csum, ppos, cpos>>

\* The consumer's endpoint (struct Writer) goes out of scope between calls.
DropWriter ==
    /\ cpc = "idle"
    /\ cpc' = "dropped"
    /\ ArcDrop
    /\ dropat' = [dropat EXCEPT
                    !.writer = [dropped |-> TRUE, r |-> read, w |-> write]]
    /\ UNCHANGED <<shared, cr, cw, cview, cbuf, cfret, cres, cfcalls, cfail,
                   sink, pvars, xvars, mvars, iovars, usize_max, debug_assertions, ctor,
                   psum, csum, ppos, cpos>>

DropProducer ==
    SR_LoadW \/ SR_LoadR \/ DP_SR_F \/ SR_Store \/ DropReader

DropConsumer ==
    SW_LoadR \/ SW_LoadW \/ SW_FCount \/ SW_Store \/ DropWriter

DropNext == DropProducer \/ DropConsumer

DropSpec == DropInit /\ [][DropNext]_vars

\* ---------------------------------------------------------------------- io
\* The std::io adapters: <Reader as io::Write>::write(src) and
\* <Writer as io::Read>::read(dst), each one with-call whose f is a vectored
\* read from / write to an io::Cursor over the caller's slice.

\* The byte values a caller's src may hold.
Bytes == {1, 2}

\* All slices of at most n bytes.
Slices(n) == UNION {[1..l -> Bytes] : l \in 0..n}

\* The bytes of storage a Range covers, in order.
RangeBytes(r) == [i \in 1..range_len(r) |-> data[r.start + (i - 1)]]

read_vectored_from_start(s, len1, len2) ==
    LET n1 == Min(Len(s), len1)
        n2 == IF n1 < len1 THEN 0 ELSE Min(Len(s) - n1, len2)
    IN [bufs |-> <<SubSeq(s, 1, n1), SubSeq(s, 1, n2)>>, n |-> n1 + n2]

\* <io::Cursor<&[u8]> as io::Read>::read_vectored(bufs) on a fresh cursor
\* over s, for two bufs of len1 and len2 bytes: each buf is filled from the
\* cursor's position, the loop stops at the first buf that is not filled.
\* bufs are the bytes written to the start of each buf, n the result.
read_vectored(s, len1, len2) ==
    LET n1 == Min(Len(s), len1)
        n2 == IF n1 < len1 THEN 0 ELSE Min(Len(s) - n1, len2)
    IN [bufs |-> <<SubSeq(s, 1, n1), SubSeq(s, n1 + 1, n1 + n2)>>,
        n |-> n1 + n2]

\* <io::Cursor<&mut [u8]> as io::Write>::write_vectored(bufs) on a fresh
\* cursor over a slice of dlen bytes, for two bufs b1 and b2: each buf is
\* written at the cursor's position as far as the slice has room, the loop
\* stops at the first buf not written whole.  out is the written prefix of
\* the slice, n the result.
write_vectored(dlen, b1, b2) ==
    LET n1 == Min(dlen, Len(b1))
        n2 == IF n1 < Len(b1) THEN 0 ELSE Min(dlen - n1, Len(b2))
    IN [out |-> SubSeq(b1, 1, n1) \o SubSeq(b2, 1, n2), n |-> n1 + n2]

IoInit ==
    /\ \E k \in 0..IoCapBits : BufferNew(Pow2(k))
    /\ EndpointsIdle
    /\ HostTarget
    /\ input = 0

\* lib.rs:247-249 -> 103  write(src): Cursor::new(src); io_slices ->
\* synced_read: let w = self.write.load(Relaxed);
Write_LoadW ==
    /\ ppc = "idle"
    /\ \E s \in Slices(IoMaxLen) :
          /\ write + Len(s) <= IoMaxBytes
          /\ src' = s
    /\ pw' = write
    /\ ppc' = "loaded_w"
    /\ pview' = NoView /\ pk' = 0
    /\ pfret' = NoRet /\ pres' = NoRet /\ pfcalls' = 0
    /\ pfail' = IF pres.kind = "ok" THEN NoFail ELSE pfail
    /\ UNCHANGED <<hvars, mvars, dst, accepted, pr, shared, cvars, xvars>>

\* lib.rs:249  f = |dsts, _| src.read_vectored(dsts): the bytes go into the
\* two slices of the empty region, f returns Ok(n).
Write_F ==
    /\ ppc = "in_f"
    /\ LET a  == pview.ranges[1]
           b  == pview.ranges[2]
           rv == read_vectored(src, range_len(a), range_len(b))
       IN /\ data' = [o \in DOMAIN data |->
                        IF a.start <= o /\ o < a.start + Len(rv.bufs[1])
                        THEN rv.bufs[1][o - a.start + 1]
                        ELSE IF b.start <= o /\ o < b.start + Len(rv.bufs[2])
                        THEN rv.bufs[2][o - b.start + 1]
                        ELSE data[o]]
          /\ pfret' = Ok(rv.n)
          /\ pk' = rv.n
          /\ accepted' = accepted \o SubSeq(src, 1, rv.n)
    /\ ppc' = "store"
    /\ UNCHANGED <<hvars, mvars, src, dst, cap, mask, read, write,
                   pw, pr, pview, pres, pfcalls, pfail, cvars, xvars>>

\* lib.rs:326-328 -> 122  read(dst): Cursor::new(dst); io_slices ->
\* synced_write: let r = self.read.load(Relaxed);
Read_LoadR ==
    /\ cpc = "idle"
    /\ \E l \in 0..IoMaxLen : dst' = [i \in 1..l |-> 0]
    /\ cr' = read
    /\ cpc' = "loaded_r"
    /\ cview' = NoView /\ cbuf' = <<>>
    /\ cfret' = NoRet /\ cres' = NoRet /\ cfcalls' = 0
    /\ cfail' = IF cres.kind = "ok" THEN NoFail ELSE cfail
    /\ UNCHANGED <<hvars, mvars, src, accepted, cw, sink, shared, pvars, xvars>>

\* lib.rs:328  f = |srcs, _| dst.write_vectored(srcs): the bytes of the two
\* slices of the filled region go into dst, f returns Ok(n).
Read_F ==
    /\ cpc = "in_f"
    /\ LET wv == write_vectored(Len(dst), RangeBytes(cview.ranges[1]),
                                RangeBytes(cview.ranges[2]))
       IN /\ dst' = [i \in 1..Len(dst) |->
                       IF i <= Len(wv.out) THEN wv.out[i] ELSE dst[i]]
          /\ cfret' = Ok(wv.n)
          /\ cbuf' = wv.out
          /\ sink' = sink \o wv.out
    /\ cpc' = "store"
    /\ UNCHANGED <<hvars, mvars, src, accepted, cr, cw, cview, cres, cfcalls, cfail,
                   shared, pvars, xvars>>

IoWrite == Write_LoadW \/ SR_LoadR \/ Write_F \/ SR_Store

IoRead == Read_LoadR \/ SW_LoadW \/ Read_F \/ SW_Store

IoNext == IoWrite \/ IoRead

IoSpec == IoInit /\ [][IoNext]_vars

\* ------------------------------------------------------------------ claims

\* C1: in every reachable state, whatever the interleaving of the steps of
\* producer and consumer calls (with every f returning n <= len), the
\* counters satisfy read <= write and write - read <= capacity.
C1_BoundedOccupancy ==
    /\ read <= write
    /\ write - read <= cap

\* The buffer is full again after the counters have passed the capacity.
C1_Witness ==
    /\ cap > 1
    /\ read > 0
    /\ write > cap
    /\ write - read = cap

\* C2: while the producer is inside f with the views of empty_ranges and the
\* consumer is inside f with the views of filled_ranges, the storage offsets
\* the two pairs of views cover are disjoint, however many calls the other
\* endpoint has completed in the meantime.
C2_DisjointViews ==
    (ppc = "in_f" /\ cpc = "in_f") =>
        SliceOffsets(pview) \cap SliceOffsets(cview) = {}

\* Both endpoints are inside f with non-empty views, and each counter has
\* moved since the other endpoint loaded it.
C2_Witness ==
    /\ ppc = "in_f" /\ cpc = "in_f"
    /\ pview.len > 0 /\ cview.len > 0
    /\ read > pr
    /\ SliceOffsets(pview) # {} /\ SliceOffsets(cview) # {}
    /\ pview.ranges[2].end > 0

\* C3: the bytes the consumer has taken are always the first read bytes of
\* the producer's stream, in order (no loss, no duplication, no reordering),
\* so they are the whole stream once read = write = N.
C3_SinkIsStreamPrefix ==
    /\ sink = StreamPrefix(Len(sink))
    /\ Len(sink) = (IF cpc = "store" THEN read + cfret.n ELSE read)
    /\ (read = MaxBytes /\ write = MaxBytes) => sink = StreamPrefix(MaxBytes)

\* The whole stream went through a buffer smaller than the stream.
C3_Witness ==
    /\ read = MaxBytes /\ write = MaxBytes
    /\ 1 < cap /\ cap < MaxBytes
    /\ sink = StreamPrefix(MaxBytes)

\* C4: a call is transactional on the caller's own counter: after f returned
\* Ok(n) the call returns Ok(n) and the counter is the value loaded at the
\* start of the call plus n; after f returned an error the call returns that
\* error and the counter is the value loaded at the start of the call; the
\* other counter is only what the other endpoint made it.
C4_Transactional ==
    /\ (ppc = "idle" /\ pfret.kind = "ok") =>
            (pres = pfret /\ write = pw + pfret.n)
    /\ (ppc = "idle" /\ pfret.kind = "err") =>
            (pres = pfret /\ write = pw)
    /\ (ppc \in {"loaded_w", "in_f", "store"}) => write = pw
    /\ (cpc = "idle" /\ cfret.kind = "ok") =>
            (cres = cfret /\ read = cr + cfret.n)
    /\ (cpc = "idle" /\ cfret.kind = "err") =>
            (cres = cfret /\ read = cr)
    /\ (cpc \in {"loaded_r", "in_f", "store"}) => read = cr

\* A producer call failed after f had written bytes, while the consumer
\* was taking bytes.
C4_Witness ==
    /\ ppc = "idle" /\ pres.kind = "err" /\ pres.e = "E2"
    /\ pk > 0
    /\ write > 0
    /\ read > pr

\* C5: a call never waits on the other endpoint: each of its steps is
\* enabled whatever the counters are, f is invoked exactly once per call,
\* and when the region offered is empty (buffer full for the producer,
\* buffer empty for the consumer) f gets two views of length zero and len 0.
C5_NeverWaits ==
    /\ (ppc = "loaded_w") => (pfcalls = 0 /\ ENABLED SR_LoadR)
    /\ (ppc = "in_f") => (pfcalls = 1 /\ ENABLED (SR_FOk \/ SR_FErr))
    /\ (ppc = "store") => (pfcalls = 1 /\ ENABLED SR_Store)
    /\ (ppc = "idle" /\ pres # NoRet) => pfcalls = 1
    /\ (ppc = "in_f" /\ pw - pr = cap) =>
            /\ pview.len = 0
            /\ range_len(pview.ranges[1]) = 0
            /\ range_len(pview.ranges[2]) = 0
    /\ (cpc = "loaded_r") => (cfcalls = 0 /\ ENABLED SW_LoadW)
    /\ (cpc = "in_f") => (cfcalls = 1 /\ ENABLED (SW_FOk \/ SW_FErr))
    /\ (cpc = "store") => (cfcalls = 1 /\ ENABLED SW_Store)
    /\ (cpc = "idle" /\ cres # NoRet) => cfcalls = 1
    /\ (cpc = "in_f" /\ cw = cr) =>
            /\ cview.len = 0
            /\ range_len(cview.ranges[1]) = 0
            /\ range_len(cview.ranges[2]) = 0

\* A producer call on a full buffer completed with Ok(0) after one
\* invocation of f, the consumer having taken no step since.
C5_Witness ==
    /\ ppc = "idle" /\ pres = Ok(0) /\ pfcalls = 1
    /\ pview.len = 0
    /\ write - read = cap
    /\ cpc = "idle" /\ cres = NoRet /\ cr = 0 /\ read = 0

\* A step of a consumer call other than the store after Ok(n), n > 0.
ConsumerObservationStep ==
    /\ cvars' # cvars
    /\ ~(cpc = "store" /\ cfret.n > 0)

\* A step of a producer call other than a write of f through the views and
\* the store after Ok(n), n > 0.
ProducerObservationStep ==
    /\ pvars' # pvars
    /\ ~(ppc = "in_f" /\ ppc' = "in_f")
    /\ ~(ppc = "store" /\ pfret.n > 0)

\* C6: idempotent observation: no step of a consumer call whose f returns
\* Ok(0), and no step of a producer call whose f writes nothing and returns
\* Ok(0), changes read, write or the storage contents, from any reachable
\* state and whatever the other endpoint is doing.
C6_IdempotentObservation ==
    [][(ConsumerObservationStep \/ ProducerObservationStep)
        => UNCHANGED <<read, write, data>>]_vars

\* A consumer call that was offered bytes returned Ok(0) while the producer
\* was in the middle of a call.
C6_Witness ==
    /\ cpc = "idle" /\ cres = Ok(0)
    /\ cview.len > 0
    /\ write > read /\ read > 0
    /\ ppc = "in_f" /\ pk > 0

\* C7 as stated: the first successful call after a failed call is given the
\* identical view pair (the same two ranges and the same len).
C7_IdenticalViewAfterError ==
    /\ (ppc = "idle" /\ pres.kind = "ok" /\ pfail # NoFail) =>
            pview = pfail.view
    /\ (cpc = "idle" /\ cres.kind = "ok" /\ cfail # NoFail) =>
            cview = cfail.view

\* The offsets of view a are the first offsets of view b, in order.
ViewPrefix(a, b) ==
    /\ a.len <= b.len
    /\ \A i \in 1..a.len : SliceOffset(a, i) = SliceOffset(b, i)

\* C7 amended: the first successful call after a failed call starts from
\* the same own counter and is given a view pair that starts at the same
\* storage offset and has the failed call's offsets as its first offsets;
\* the pair is identical exactly when both calls loaded the same value of
\* the other endpoint's counter.
C7_SameStartAfterError ==
    /\ (ppc = "idle" /\ pres.kind = "ok" /\ pfail # NoFail) =>
            /\ pw = pfail.w
            /\ pview.ranges[1].start = pfail.view.ranges[1].start
            /\ ViewPrefix(pfail.view, pview)
            /\ (pr = pfail.r) <=> (pview = pfail.view)
    /\ (cpc = "idle" /\ cres.kind = "ok" /\ cfail # NoFail) =>
            /\ cr = cfail.r
            /\ cview.ranges[1].start = cfail.view.ranges[1].start
            /\ ViewPrefix(cfail.view, cview)
            /\ (cw = cfail.w) <=> (cview = cfail.view)

\* A consumer call that was offered bytes failed after reading some, and the
\* next successful call was offered more bytes, across the wrap.
C7_Witness ==
    /\ cpc = "idle" /\ cres.kind = "ok" /\ cres.n > 0
    /\ cfail # NoFail
    /\ cfail.view.len > 0
    /\ cview.len > cfail.view.len
    /\ cview.ranges[2].end > 0

\* C8: liveness: with a producer that writes at least one byte whenever it
\* is offered len > 0, until N bytes are produced, and a consumer that takes
\* at least one byte whenever it is offered len > 0, both weakly fair, the
\* run reaches read = write = N, and no state with write < N or read < write
\* is a deadlock.
C8_Liveness ==
    /\ <>(read = MaxBytes /\ write = MaxBytes)
    /\ []((write < MaxBytes \/ read < write) => ENABLED LiveNext)

\* The run has drained: all N bytes are produced, consumed and in the sink.
C8_Witness ==
    /\ read = MaxBytes /\ write = MaxBytes
    /\ sink = StreamPrefix(MaxBytes)
    /\ cap < MaxBytes

\* C9: in the streaming termination pattern, whenever the consumer loop
\* exits, every one of the N bytes has been consumed: the read counter
\* (Writer::position()) equals N at the exit, in every interleaving.
C9_ConsumerExitsDrained ==
    (cpc \in {"exit", "panic"}) => read = StreamBytes

\* C10: for every capacity that is a power of two and every (read, write)
\* with read <= write <= read + capacity, filled_ranges returns
\* len = write - read, empty_ranges returns len = capacity - (write - read),
\* and in both results the lengths of the two sub-ranges (none of them
\* negative) sum to the returned len.
C10_LengthSum ==
    /\ (cview # NoView) =>
            /\ cview.len = write - read
            /\ range_len(cview.ranges[1]) >= 0
            /\ range_len(cview.ranges[2]) >= 0
            /\ range_len(cview.ranges[1]) + range_len(cview.ranges[2])
                 = cview.len
    /\ (pview # NoView) =>
            /\ pview.len = cap - (write - read)
            /\ range_len(pview.ranges[1]) >= 0
            /\ range_len(pview.ranges[2]) >= 0
            /\ range_len(pview.ranges[1]) + range_len(pview.ranges[2])
                 = pview.len

\* Both functions were applied to counters past the capacity, with a filled
\* region that wraps and an empty region that does not.
C10_Witness ==
    /\ cview # NoView /\ pview # NoView
    /\ read > cap
    /\ range_len(cview.ranges[2]) > 0
    /\ range_len(pview.ranges[1]) > 0
    /\ range_len(pview.ranges[2]) = 0

\* C11: for every capacity that is a power of two and every (read, write)
\* with read <= write <= read + capacity, the four sub-ranges returned by
\* filled_ranges and empty_ranges for the same (read, write) are pairwise
\* disjoint as sets of storage offsets, and their union is [0, capacity).
C11_Partition ==
    (cview # NoView /\ pview # NoView) =>
        LET four == <<cview.ranges[1], cview.ranges[2],
                      pview.ranges[1], pview.ranges[2]>>
        IN /\ \A i \in 1..4 : \A j \in 1..4 :
                 i # j => RangeOffsets(four[i]) \cap RangeOffsets(four[j]) = {}
           /\ UNION {RangeOffsets(four[i]) : i \in 1..4} = 0..(cap - 1)

\* Both functions were applied to the same counters, and all four sub-ranges
\* are non-empty: the filled region wraps, so the empty one lies inside.
C11_Witness ==
    /\ cview # NoView /\ pview # NoView
    /\ range_len(cview.ranges[1]) > 0 /\ range_len(cview.ranges[2]) > 0
    /\ range_len(pview.ranges[1]) > 0
    /\ read > cap

\* Both functions were applied to the same counters and the empty region
\* wraps, so the filled one lies inside.
C11_WitnessEmptyWraps ==
    /\ cview # NoView /\ pview # NoView
    /\ range_len(pview.ranges[1]) > 0 /\ range_len(pview.ranges[2]) > 0
    /\ range_len(cview.ranges[1]) > 0

\* C13: shape and order of the views. filled_ranges returns a first
\* sub-range starting at read & mask and a second starting at 0; the second
\* is empty whenever (read & mask) + (write - read) <= capacity; the first
\* sub-range followed by the second enumerates (read + i) mod capacity for
\* i = 0 .. write-read-1 in increasing i. empty_ranges does the same from
\* write & mask for capacity - (write - read) offsets. For read = write,
\* empty_ranges is [s..capacity), [0..s) with s = read & mask; for
\* write - read = capacity, filled_ranges is [s..capacity), [0..s).
C13_ShapeAndOrder ==
    /\ (cview # NoView) =>
          LET s == BitAnd(read, mask)
          IN /\ cview.ranges[1].start = s
             /\ cview.ranges[2].start = 0
             /\ (s + (write - read) <= cap) => range_len(cview.ranges[2]) = 0
             /\ ViewSeq(cview) = [i \in 1..(write - read) |->
                                    (read + (i - 1)) % cap]
             /\ (write - read = cap) =>
                    cview.ranges = <<Range(s, cap), Range(0, s)>>
    /\ (pview # NoView) =>
          LET s == BitAnd(write, mask)
              n == cap - (write - read)
          IN /\ pview.ranges[1].start = s
             /\ pview.ranges[2].start = 0
             /\ (s + n <= cap) => range_len(pview.ranges[2]) = 0
             /\ ViewSeq(pview) = [i \in 1..n |-> (write + (i - 1)) % cap]
             /\ (read = write) =>
                    pview.ranges = <<Range(BitAnd(read, mask), cap),
                                     Range(0, BitAnd(read, mask))>>

\* filled_ranges was applied to a full buffer whose read offset is not 0, so
\* the view is [s..capacity), [0..s) with both parts non-empty.
C13_Witness ==
    /\ cview # NoView
    /\ write - read = cap
    /\ BitAnd(read, mask) > 0
    /\ cview.ranges = <<Range(BitAnd(read, mask), cap),
                        Range(0, BitAnd(read, mask))>>

\* The debug assertions of filled_ranges / empty_ranges (lib.rs:145-146,
\* 159 and 171-172, 185), of range_len (lib.rs:420) and of slices /
\* slices_mut (lib.rs:382, 402) for the counters r, w and the view computed
\* from them.
AssertionsHold(r, w, v) ==
    /\ r <= w
    /\ w <= r + cap
    /\ \A i \in 1..2 : /\ v.ranges[i].start <= v.ranges[i].end
                       /\ v.ranges[i].end <= cap
    /\ range_len(v.ranges[1]) + range_len(v.ranges[2]) = v.len

\* C19: the counter pair each endpoint loads in two separate loads is
\* consistent for every interleaving of the other endpoint's stores: the
\* (r, w) the producer passes to empty_ranges and the consumer passes to
\* filled_ranges satisfies r <= w <= r + capacity, every returned range has
\* start <= end <= capacity, so no debug assertion of filled_ranges,
\* empty_ranges, range_len, slices or slices_mut fails.
C19_ConsistentPair ==
    /\ (pview # NoView) => AssertionsHold(pr, pw, pview)
    /\ (cview # NoView) => AssertionsHold(cr, cw, cview)

\* The producer is inside f with a pair whose r the consumer has since
\* moved past, while the consumer is inside f of a later call with a pair
\* it loaded after the producer's w.
C19_Witness ==
    /\ ppc = "in_f" /\ cpc = "in_f"
    /\ read > pr
    /\ pw > pr
    /\ cw > cr
    /\ pw > cap

\* C18: in the streaming pattern the producer loop sets done and exits only
\* after all N source bytes have been published: whenever done is true,
\* and so at the moment the producer thread observes it, Reader::position()
\* (the write counter) equals N and the source is exhausted; the assertion
\* of spinthreads.rs:38 never fails.
C18_ProducerExitsPublished ==
    /\ done => (write = StreamBytes /\ input = 0)
    /\ ppc # "panic"

\* The reader thread has observed done and returned, after a run in which
\* the buffer was smaller than the source, so that publishing took several
\* calls.
C18_Witness ==
    /\ ppc = "exit"
    /\ done
    /\ cap < StreamBytes
    /\ write = StreamBytes

\* C16: counter overflow is detected, never wrapped. With usize of
\* SmallWordBits bits, a with_* call whose own counter + n exceeds usize::MAX
\* panics without storing: the counter keeps its value, every call that
\* returned Ok(n) stored the true sum, and both counters always equal the
\* true sums of the returned n, so no value reduced modulo 2^w is published.
C16_OverflowDetected ==
    /\ write = psum /\ read = csum
    /\ write <= usize_max /\ read <= usize_max
    /\ (ppc = "panic" /\ pfret.kind = "ok") =>
            (write = pw /\ pw + pfret.n > usize_max)
    /\ (cpc = "panic" /\ cfret.kind = "ok") =>
            (read = cr /\ cr + cfret.n > usize_max)
    /\ (ppc = "idle" /\ pres.kind = "ok") =>
            (write = pw + pres.n /\ pw + pres.n <= usize_max)
    /\ (cpc = "idle" /\ cres.kind = "ok") =>
            (read = cr + cres.n /\ cr + cres.n <= usize_max)

\* A producer call whose sum did not fit has panicked in its unwrap, the
\* write counter still has the value the call loaded, and the consumer has
\* since loaded that value.
C16_Witness ==
    /\ ppc = "panic" /\ pfret.kind = "ok"
    /\ pfret.n > 0
    /\ pw + pfret.n > usize_max
    /\ write = pw
    /\ cpc = "in_f" /\ cw = pw

\* C12 as stated: Buffer::new(size, align) panics when size is zero or not
\* a power of two or align is not a power of two, and for all other
\* arguments it yields read = write = 0, capacity = size, mask = size - 1,
\* with the first producer call offered [0..capacity), [0..0) and the first
\* consumer call offered len = 0.
C12_NewYieldsOtherwise ==
    LET valid == /\ \E k \in 0..SmallWordBits : ctor.size = Pow2(k)
                 /\ \E k \in 0..SmallWordBits : ctor.align = Pow2(k)
    IN /\ (ctor.state \in {"new", "built"}) => valid
       /\ (ctor.state = "panic") => ~valid

\* C12 (amended): Buffer::new(size, align) panics, creating no buffer, when
\* size is zero or not a power of two or align is not a power of two, and
\* also when size rounded up to align exceeds isize::MAX or the allocator
\* returns null. When it returns, read = write = 0, capacity = size,
\* mask = size - 1, and after into_parts the first producer call is
\* offered [0..capacity), [0..0) with len = capacity and the first consumer
\* call is offered len = 0.
C12_Construction ==
    LET pow2(x) == \E k \in 0..SmallWordBits : x = Pow2(k)
        valid   == pow2(ctor.size) /\ pow2(ctor.align)
        fits    == ctor.size + (ctor.align - 1) <= usize_max \div 2
    IN /\ (ctor.state \in {"new", "built"}) =>
            /\ valid /\ fits
            /\ read = 0 /\ write = 0
            /\ cap = ctor.size /\ mask = ctor.size - 1
            /\ alloc
            /\ DOMAIN data = 0..(cap - 1)
       /\ (ctor.state = "panic") =>
            /\ ~alloc /\ arc = 0
            /\ ~valid \/ ~fits \/ ctor.why = "alloc"
       /\ (~(valid /\ fits)) => ctor.state \in {"start", "panic"}
       /\ (ppc = "in_f") =>
            pview = [ranges |-> <<Range(0, cap), Range(0, 0)>>, len |-> cap]
       /\ (cpc = "in_f") => (cview # NoView /\ cview.len = 0)

\* A buffer of more than one byte was built with a smaller alignment, and
\* both endpoints are inside f of their first call.
C12_Witness ==
    /\ ctor.state = "built"
    /\ ctor.size > 1 /\ ctor.align > 1 /\ ctor.align < ctor.size
    /\ ppc = "in_f" /\ cpc = "in_f"
    /\ pview.len = cap /\ cview.len = 0

\* C14: single-writer frame. No step of a producer call or observer
\* (Reader::slices, Reader::io_slices, Reader::position) changes read; no
\* step of a consumer call or observer (Writer::slices, Writer::io_slices,
\* Writer::position, Writer::is_empty) changes write; position() and
\* is_empty() change neither counter.
C14_SingleWriter ==
    [][ /\ (pvars' # pvars \/ ppos' # ppos) => read' = read
        /\ (cvars' # cvars \/ cpos' # cpos \/ ce' # ce) => write' = write
        /\ (ppos' # ppos \/ cpos' # cpos \/ ce' # ce) =>
                (read' = read /\ write' = write)
      ]_vars

\* Both endpoints have completed calls that moved bytes, and each observer
\* has returned a non-zero counter: is_empty() found a non-empty buffer
\* after the consumer had taken bytes.
C14_Witness ==
    /\ psum > 0 /\ csum > 0
    /\ ppos > 0 /\ cpos > 0
    /\ ce.r > 0 /\ ce.w > ce.r
    /\ read = csum /\ write = psum

\* C15: the counters are absolute and monotone. In every reachable state
\* write equals the sum of the n returned by all completed successful
\* producer calls and read the sum for the consumer calls; no step
\* decreases a counter, and successive results of Reader::position() and
\* of Writer::position() are non-decreasing.
C15_AbsoluteMonotone ==
    [][ /\ write' = psum' /\ read' = csum'
        /\ write' >= write /\ read' >= read
        /\ ppos' >= ppos /\ cpos' >= cpos
      ]_vars

\* Each position() has returned a non-zero counter that has grown since,
\* and write has passed the capacity.
C15_Witness ==
    /\ ppos > 0 /\ write > ppos
    /\ cpos > 0 /\ read > cpos
    /\ write > cap
    /\ write = psum /\ read = csum

\* C20 as stated: a result of true of Writer::is_empty() implies that
\* write = read held at the instant of its load of write.
C20_TrueMeansEmptyAtLoad ==
    ce.empty => ce.now = ce.r

\* C20 (amended): Writer::is_empty() returns whether the value it loaded
\* from write equals read. That value is one the producer stored, not
\* older than any the consumer has seen before, but not necessarily the
\* latest: true does not imply that write = read held at the load. A
\* result of false is truthful and stable: the buffer was non-empty at the
\* load, stays non-empty as long as the consumer has not taken bytes, and a
\* consumer call made then is offered len > 0.
C20_IsEmptyOfLoadedValue ==
    [][ /\ (cpc = "is_empty_r" /\ cpc' = "idle") =>
                /\ ce'.empty = (ce'.w = read)
                /\ ce'.r = read
                /\ ce'.w \in write_visible
                /\ ce'.w >= cw
                /\ ce'.now = write
                /\ ~ce'.empty => write > read
        /\ (ce.w > ce.r /\ ~ce.empty /\ read = ce.r) =>
                /\ write > read
                /\ (cpc \in {"in_f", "store"}) => cview.len > 0
        /\ (ce'.w > ce'.r /\ ~ce'.empty /\ read' = ce'.r) =>
                /\ write' > read'
                /\ (cpc' \in {"in_f", "store"}) => cview'.len > 0
      ]_vars

\* is_empty() returned true after the consumer had taken bytes, although
\* at its load of write the producer had already published more: the load
\* returned an older value.
C20_Witness ==
    /\ cpc = "idle"
    /\ ce.empty /\ ce.r > 0 /\ ce.w = ce.r
    /\ ce.now > ce.w
    /\ read = ce.r

\* C17: after one endpoint is dropped the survivor's calls still complete
\* and never fail by themselves. A surviving producer publishes at most
\* capacity - (write - read) further bytes (counters as at the drop) and,
\* once it has, is offered len = 0 on every call; a surviving consumer
\* takes at most write - read further bytes and is then offered len = 0 on
\* every call. The storage stays allocated until the second endpoint is
\* dropped.
C17_SurvivorAfterDrop ==
    LET pd == dropat.reader
        cd == dropat.writer
    IN /\ alloc = (~pd.dropped \/ ~cd.dropped)
       /\ pd.dropped = (ppc = "dropped")
       /\ cd.dropped = (cpc = "dropped")
       /\ (cd.dropped /\ ~pd.dropped) =>
            /\ read = cd.r
            /\ write - cd.w <= cap - (cd.w - cd.r)
            /\ (ppc \in {"in_f", "store"} /\ pw - cd.w = cap - (cd.w - cd.r))
                    => pview.len = 0
            /\ ppc # "panic" /\ pres.kind # "err"
            /\ (ppc = "idle") => ENABLED SR_LoadW
            /\ (ppc = "loaded_w") => ENABLED SR_LoadR
            /\ (ppc = "in_f") => ENABLED DP_SR_F
            /\ (ppc = "store") => ENABLED SR_Store
       /\ (pd.dropped /\ ~cd.dropped) =>
            /\ write = pd.w
            /\ read - pd.r <= pd.w - pd.r
            /\ (cpc \in {"in_f", "store"} /\ cr - pd.r = pd.w - pd.r)
                    => cview.len = 0
            /\ cpc # "panic" /\ cres.kind # "err"
            /\ (cpc = "idle") => ENABLED SW_LoadR
            /\ (cpc = "loaded_r") => ENABLED SW_LoadW
            /\ (cpc = "in_f") => ENABLED SW_FCount
            /\ (cpc = "store") => ENABLED SW_Store

\* The consumer's endpoint was dropped with bytes left in a buffer that was
\* not full; the producer has since published up to the capacity, has
\* completed that call, and is now inside f of a later call with len = 0.
C17_Witness ==
    /\ dropat.writer.dropped /\ ~dropat.reader.dropped
    /\ dropat.writer.w > dropat.writer.r
    /\ write > dropat.writer.w
    /\ write = read + cap
    /\ ppc = "in_f" /\ pw = write /\ pview.len = 0
    /\ alloc

\* C21: the std::io adapters move bytes through the ring without loss or
\* reordering. write(src) copies the first k = min(len(src), capacity -
\* (write - read)) bytes of src into the empty region in order, advances
\* write by k and returns Ok(k), Ok(0) when the buffer is full; read(dst)
\* copies the oldest k = min(len(dst), write - read) unread bytes into dst
\* in order, advances read by k and returns Ok(k); the bytes the reads
\* return are the accepted bytes in the order they were written. (write
\* and read are the counters as the call loaded them.)
C21_IoAdapters ==
    LET pdone == ppc = "idle" /\ pres # NoRet
        cdone == cpc = "idle" /\ cres # NoRet
        kw    == Min(Len(src), cap - (pw - pr))
        kr    == Min(Len(dst), cw - cr)
    IN /\ (ppc = "store" \/ pdone) =>
            /\ pfret = Ok(kw)
            /\ (pw - pr = cap) => pfret = Ok(0)
            /\ \A i \in 1..kw :
                  (pw + (i - 1) >= read) =>
                      data[(pw + (i - 1)) % cap] = src[i]
       /\ pdone => (pres = Ok(kw) /\ write = pw + kw)
       /\ (cpc = "store" \/ cdone) =>
            /\ cfret = Ok(kr)
            /\ SubSeq(dst, 1, kr) = SubSeq(accepted, cr + 1, cr + kr)
       /\ cdone => (cres = Ok(kr) /\ read = cr + kr)
       /\ Len(accepted) = (IF ppc = "store" THEN write + pfret.n ELSE write)
       /\ Len(sink) = (IF cpc = "store" THEN read + cfret.n ELSE read)
       /\ sink = SubSeq(accepted, 1, Len(sink))
       /\ \A i \in (read + 1)..write : data[(i - 1) % cap] = accepted[i]

\* More bytes than the capacity have gone through, with both byte values
\* among them; the last write was cut short by a full buffer, the last read
\* filled its dst from both slices of a wrapped region, and everything
\* accepted has been returned.
C21_Witness ==
    /\ ppc = "idle" /\ pres # NoRet /\ pres.n < Len(src)
    /\ cpc = "idle" /\ cres # NoRet /\ cres.n = 2
    /\ range_len(cview.ranges[1]) = 1 /\ range_len(cview.ranges[2]) >= 1
    /\ write > cap /\ read = write
    /\ sink = accepted
    /\ \E i \in 1..Len(sink) : \E j \in 1..Len(sink) : sink[i] # sink[j]

=============================================================================
